---- MODULE Spec2Model ----
(***************************************************************************)
(* Model of nisacraft99/generator: the legacy test-case text parser of     *)
(* generate_pdf.py, the JSON extraction and generation path of app.py, and *)
(* the command-line generation path of generate_pdf.py.                    *)
(*                                                                         *)
(* Text is a sequence of characters.  A character is a one-letter string;  *)
(* the characters that cannot be written inside a string literal have      *)
(* names: "TAB", "NL" (newline), "BSL" (backslash), "QT" (double quote),   *)
(* "EMDASH" (U+2014), "BTICK" (backtick), "APOS" (apostrophe).             *)
(***************************************************************************)
EXTENDS Integers, Sequences, FiniteSets, TLC

VARIABLES
    raw,        \* parser: the lines the input blob was written with
    blob,       \* parser: argument of parse_legacy_testcases_blob
    lines,      \* parser: local `lines`
    idx,        \* parser: position of the for loop in `lines`
    cases,      \* parser: local `cases`, the returned list once ppc = "done"
    current,    \* parser: local `current`; <<>> is the empty dict {}
    ppc,        \* parser: control point
    story,      \* web: user_story, the text of the story field
    ac,         \* web: ac_text, the text of the acceptance-criteria field
    client,     \* web: whether app.py's `client` is set
    apiout,     \* web: outcome of client.chat.completions.create
    jres,       \* web: outcome of _json_from_text
    gen,        \* web: the value generate_cases returned
    pdf,        \* web: the arguments app.build_pdf was called with, if it was
    wpc,        \* web: control point of the export handler
    stdin,      \* cli: the lines typed on standard input
    payload,    \* cli: what read_user_story_from_stdin returned, if it ran
    cli_client, \* cli: whether generate_pdf.py's `client` is set
    attempts,   \* cli: requests call_model has issued
    creply,     \* cli: content of the last reply
    cdata,      \* cli: what call_model returned, if it returned
    handed,     \* cli: the argument generate_pdf.build_pdf was called with
    written,    \* cli: whether testcases.pdf was written
    cout,       \* cli: the message the script printed last
    cexit,      \* cli: exit status, -1 while the script runs
    cpc,        \* cli: control point of the main script
    APP_PASSWORD, \* gate: the configured password
    auth_ok,    \* gate: st.session_state.auth_ok
    pw_input,   \* gate: st.session_state.pw_input; "" when absent
    pw_error,   \* gate: st.session_state.pw_error; "" when absent
    click,      \* gate: the button whose press started the pending run
    reached,    \* gate: the parts of the page the last script run executed
    apc,        \* gate: control point of the script run
    rfn,        \* render: which build_pdf is called
    rin,        \* render: the arguments of build_pdf
    elems,      \* render: the flowables build_pdf hands to doc.build
    rpc         \* render: control point

pvars == <<raw, blob, lines, idx, cases, current, ppc>>
wvars == <<story, ac, client, apiout, jres, gen, pdf, wpc>>
cvars == <<stdin, payload, cli_client, attempts, creply, cdata, handed, written,
           cout, cexit, cpc>>
avars == <<APP_PASSWORD, auth_ok, pw_input, pw_error, click, reached, apc>>
rvars == <<rfn, rin, elems, rpc>>
vars == <<pvars, wvars, cvars, avars, rvars>>

(***************************************************************************)
(* Bounds                                                                  *)
(***************************************************************************)
MaxLines == 5
MaxSteps == 2

(***************************************************************************)
(* Characters and text helpers                                             *)
(***************************************************************************)
WS == {" ", "TAB", "NL"}
BLANKS == {" ", "TAB"}
DIGIT == {"0", "1", "2", "3", "4", "5", "6", "7", "8", "9"}
DASHES == {"EMDASH", "-"}

Max(S) == CHOOSE m \in S : \A n \in S : n <= m
Min(S) == CHOOSE m \in S : \A n \in S : m <= n

At(s, i) == IF i \in 1..Len(s) THEN s[i] ELSE "EOS"

\* end of the longest run of characters of class C that starts at i
Span(s, i, C) ==
    IF i > Len(s) THEN i
    ELSE CHOOSE j \in i..(Len(s) + 1) :
            /\ \A k \in i..(j - 1) : s[k] \in C
            /\ (j = Len(s) + 1 \/ s[j] \notin C)

LStrip(s) == SubSeq(s, Span(s, 1, WS), Len(s))

RECURSIVE RStrip(_)
RStrip(s) ==
    IF s = <<>> THEN <<>>
    ELSE IF s[Len(s)] \in WS THEN RStrip(SubSeq(s, 1, Len(s) - 1))
    ELSE s

Strip(s) == RStrip(LStrip(s))

\* str.replace(" ", "")
RECURSIVE RemoveSpaces(_)
RemoveSpaces(s) ==
    IF s = <<>> THEN <<>>
    ELSE IF Head(s) = " " THEN RemoveSpaces(Tail(s))
    ELSE <<Head(s)>> \o RemoveSpaces(Tail(s))

\* str.splitlines()
RECURSIVE SplitLines(_)
SplitLines(s) ==
    IF s = <<>> THEN <<>>
    ELSE LET j == Span(s, 1, {s[k] : k \in 1..Len(s)} \ {"NL"})
         IN  <<SubSeq(s, 1, j - 1)>> \o SplitLines(SubSeq(s, j + 1, Len(s)))

RECURSIVE JoinLines(_)
JoinLines(ls) ==
    IF ls = <<>> THEN <<>>
    ELSE IF Len(ls) = 1 THEN ls[1]
    ELSE ls[1] \o <<"NL">> \o JoinLines(Tail(ls))

\* [l.rstrip() for l in ls if l.strip()]
RECURSIVE NonBlankRStripped(_)
NonBlankRStripped(ls) ==
    IF ls = <<>> THEN <<>>
    ELSE IF Strip(Head(ls)) # <<>>
         THEN <<RStrip(Head(ls))>> \o NonBlankRStripped(Tail(ls))
         ELSE NonBlankRStripped(Tail(ls))

\* textwrap.dedent: whitespace-only lines become empty, the longest common
\* leading run of blanks of the other lines is removed from each of them
Margin(l) == SubSeq(l, 1, Span(l, 1, BLANKS) - 1)

CommonPrefixLen(a, b) ==
    CHOOSE n \in 0..Len(a) :
        /\ n <= Len(b)
        /\ \A k \in 1..n : a[k] = b[k]
        /\ (n = Len(a) \/ n = Len(b) \/ a[n + 1] # b[n + 1])

Dedent(s) ==
    LET ls == SplitLines(s)
        norm == [k \in 1..Len(ls) |->
                    IF Strip(ls[k]) = <<>> THEN <<>> ELSE ls[k]]
        full == {k \in 1..Len(ls) : norm[k] # <<>>}
        cut == IF full = {} THEN 0
               ELSE LET k0 == CHOOSE k \in full : TRUE
                        lens == {CommonPrefixLen(Margin(norm[k0]), Margin(norm[k])) :
                                    k \in full}
                    IN  CHOOSE n \in lens : \A m \in lens : n <= m
        out == [k \in 1..Len(ls) |->
                    IF norm[k] = <<>> THEN <<>>
                    ELSE SubSeq(norm[k], cut + 1, Len(norm[k]))]
    IN  JoinLines(out) \o (IF s # <<>> /\ s[Len(s)] = "NL" THEN <<"NL">> ELSE <<>>)

(***************************************************************************)
(* The three line patterns                                                 *)
(***************************************************************************)
\* TC_HEADER_RE  ^\s*(TC[-\s]*\d+)\s+[EMDASH-]\s+(.+?)\s*$
TC_HEADER_RE(line) ==
    LET a == Span(line, 1, WS)
        b == Span(line, a + 2, WS \cup {"-"})
        c == Span(line, b, DIGIT)
        d == Span(line, c, WS)
        e == Span(line, d + 1, WS)
        ok == /\ At(line, a) = "T" /\ At(line, a + 1) = "C"
              /\ c > b
              /\ d > c
              /\ At(line, d) \in DASHES
              /\ e > d + 1
              /\ e <= Len(line)
    IN  [ok |-> ok,
         g1 |-> IF ok THEN SubSeq(line, a, c - 1) ELSE <<>>,
         g2 |-> IF ok THEN RStrip(SubSeq(line, e, Len(line))) ELSE <<>>]

\* STEP_RE  ^\s*(\d+)\.\s*(.+?)\s*$
STEP_RE(line) ==
    LET a == Span(line, 1, WS)
        b == Span(line, a, DIGIT)
        c == Span(line, b + 1, WS)
    IN  [ok |-> b > a /\ At(line, b) = "." /\ c <= Len(line),
         g1 |-> SubSeq(line, a, b - 1),
         g2 |-> RStrip(SubSeq(line, c, Len(line)))]

\* EXPECT_RE  ^\s*->\s*(.+?)\s*$
EXPECT_RE(line) ==
    LET a == Span(line, 1, WS)
        c == Span(line, a + 2, WS)
    IN  [ok |-> At(line, a) = "-" /\ At(line, a + 1) = ">" /\ c <= Len(line),
         g1 |-> RStrip(SubSeq(line, c, Len(line)))]

(***************************************************************************)
(* parse_legacy_testcases_blob                                             *)
(***************************************************************************)
EmptyText == <<>>

NewCase(id, title) ==
    [id |-> id, title |-> title, priority |-> EmptyText, type |-> EmptyText,
     steps |-> <<>>]

DefaultCase == NewCase(<<"T", "C", "-", "1">>, EmptyText)

NewStep(action) == [step |-> action, expected |-> EmptyText]

\* str(i) for a positive integer
RECURSIVE Decimal(_)
Decimal(n) ==
    LET d == <<"0", "1", "2", "3", "4", "5", "6", "7", "8", "9">>
    IN  IF n < 10 THEN <<d[n + 1]>> ELSE Decimal(n \div 10) \o <<d[(n % 10) + 1]>>

\* the lines the input is drawn from
RawLines ==
    { <<"T", "C", "-", "1", " ", "EMDASH", " ", "A">>,
      <<"T", "C", " ", "TAB", "2", " ", "-", " ", "B">>,
      <<" ", "1", ".", " ", "a">>,
      <<"2", ".", "b", " ">>,
      <<"-", ">", " ", "x">>,
      <<"1", ".">>,
      <<" ">> }

\* the other programs are not running
WebIdle ==
    /\ story = <<>> /\ ac = <<>> /\ client = FALSE
    /\ apiout = [kind |-> "none", wrap |-> "none", body |-> <<>>, text |-> <<>>]
    /\ jres = [raised |-> FALSE, val |-> [null |-> <<>>]]
    /\ gen = [arr |-> <<>>]
    /\ pdf = <<>>
    /\ wpc = "idle"

CliIdle ==
    /\ stdin = <<>> /\ payload = <<>> /\ cli_client = FALSE
    /\ attempts = 0 /\ creply = <<>> /\ cdata = <<>> /\ handed = <<>>
    /\ written = FALSE /\ cout = "" /\ cexit = -1
    /\ cpc = "idle"

AuthIdle ==
    /\ APP_PASSWORD = "" /\ auth_ok = FALSE /\ pw_input = "" /\ pw_error = ""
    /\ click = "none" /\ reached = {}
    /\ apc = "idle"

RenderIdle ==
    /\ rfn = "none" /\ rin = <<>> /\ elems = <<>>
    /\ rpc = "idle"

ParseIdle ==
    /\ raw = <<>> /\ blob = <<>> /\ lines = <<>> /\ idx = 1
    /\ cases = <<>> /\ current = <<>>
    /\ ppc = "idle"

InitParse ==
    /\ \E n \in 0..MaxLines : \E f \in [1..n -> RawLines] :
          /\ raw = f
          /\ blob = JoinLines(f)
    /\ lines = <<>>
    /\ idx = 1
    /\ cases = <<>>
    /\ current = <<>>
    /\ ppc = "start"
    /\ WebIdle /\ CliIdle /\ AuthIdle /\ RenderIdle

\* lines 141-143: blob = dedent(blob).strip(); if not blob: return []
ReturnEmpty ==
    /\ ppc = "start"
    /\ Strip(Dedent(blob)) = <<>>
    /\ ppc' = "done"
    /\ UNCHANGED <<raw, blob, lines, idx, cases, current>>
    /\ UNCHANGED <<wvars, cvars, avars, rvars>>

\* lines 141-147
Prepare ==
    /\ ppc = "start"
    /\ Strip(Dedent(blob)) # <<>>
    /\ lines' = NonBlankRStripped(SplitLines(Strip(Dedent(blob))))
    /\ idx' = 1
    /\ ppc' = "loop"
    /\ UNCHANGED <<raw, blob, cases, current>>
    /\ UNCHANGED <<wvars, cvars, avars, rvars>>

Line == lines[idx]
InLoop == ppc = "loop" /\ idx <= Len(lines)

\* lines 150-164
HeaderLine ==
    /\ InLoop
    /\ TC_HEADER_RE(Line).ok
    /\ cases' = IF current # <<>> THEN Append(cases, current[1]) ELSE cases
    /\ current' = <<NewCase(RemoveSpaces(TC_HEADER_RE(Line).g1),
                            Strip(TC_HEADER_RE(Line).g2))>>
    /\ idx' = idx + 1
    /\ UNCHANGED <<raw, blob, lines, ppc>>
    /\ UNCHANGED <<wvars, cvars, avars, rvars>>

\* a parser that forgets the default case for steps before any header
SynthesizeNever(cur) == cur

\* lines 169-171
Synthesize(cur) == IF cur = <<>> THEN <<DefaultCase>> ELSE cur

\* a parser that puts the new step in front of the earlier ones
PrependStep(steps, s) == <<s>> \o steps

\* line 172, list.append
AppendStep(steps, s) == Append(steps, s)

\* lines 166-173; current["steps"] of {} is a KeyError
StepLine ==
    /\ InLoop
    /\ ~TC_HEADER_RE(Line).ok
    /\ STEP_RE(Line).ok
    /\ LET cur == Synthesize(current)
       IN  IF cur = <<>>
           THEN /\ ppc' = "raised"
                /\ UNCHANGED <<current, idx>>
           ELSE /\ current' = <<[cur[1] EXCEPT !.steps =
                                    AppendStep(@, NewStep(Strip(STEP_RE(Line).g2)))]>>
                /\ idx' = idx + 1
                /\ ppc' = ppc
    /\ UNCHANGED <<raw, blob, lines, cases>>
    /\ UNCHANGED <<wvars, cvars, avars, rvars>>

HasSteps == current # <<>> /\ current[1].steps # <<>>

\* line 177
SetExpected(s, text) == [s EXCEPT !.expected = text]

\* lines 175-178
ExpectLine ==
    /\ InLoop
    /\ ~TC_HEADER_RE(Line).ok
    /\ ~STEP_RE(Line).ok
    /\ EXPECT_RE(Line).ok /\ HasSteps
    /\ LET n == Len(current[1].steps)
       IN  current' = <<[current[1] EXCEPT !.steps[n] =
                            SetExpected(@, Strip(EXPECT_RE(Line).g1))]>>
    /\ idx' = idx + 1
    /\ UNCHANGED <<raw, blob, lines, cases, ppc>>
    /\ UNCHANGED <<wvars, cvars, avars, rvars>>

\* a continuation that always goes to the action
ContinueToStep(s, line) == [s EXCEPT !.step = @ \o <<" ">> \o Strip(line)]

\* lines 182-186
Continue(s, line) ==
    IF s.expected # EmptyText
    THEN [s EXCEPT !.expected = @ \o <<" ">> \o Strip(line)]
    ELSE [s EXCEPT !.step = @ \o <<" ">> \o Strip(line)]

\* lines 180-186
ContinuationLine ==
    /\ InLoop
    /\ ~TC_HEADER_RE(Line).ok
    /\ ~STEP_RE(Line).ok
    /\ ~(EXPECT_RE(Line).ok /\ HasSteps)
    /\ IF HasSteps
       THEN LET n == Len(current[1].steps)
            IN  current' = <<[current[1] EXCEPT !.steps[n] = Continue(@, Line)]>>
       ELSE current' = current
    /\ idx' = idx + 1
    /\ UNCHANGED <<raw, blob, lines, cases, ppc>>
    /\ UNCHANGED <<wvars, cvars, avars, rvars>>

\* lines 188-191
Finalize ==
    /\ ppc = "loop"
    /\ idx > Len(lines)
    /\ cases' = IF current # <<>> THEN Append(cases, current[1]) ELSE cases
    /\ ppc' = "post"
    /\ UNCHANGED <<raw, blob, lines, idx, current>>
    /\ UNCHANGED <<wvars, cvars, avars, rvars>>

\* lines 194-196
EnsureId(tc, i) ==
    IF tc.id = EmptyText THEN [tc EXCEPT !.id = <<"T", "C", "-">> \o Decimal(i)]
    ELSE tc

\* lines 193-197
PostPass ==
    /\ ppc = "post"
    /\ cases' = [i \in 1..Len(cases) |-> EnsureId(cases[i], i)]
    /\ ppc' = "done"
    /\ UNCHANGED <<raw, blob, lines, idx, current>>
    /\ UNCHANGED <<wvars, cvars, avars, rvars>>

NextParse ==
    \/ ReturnEmpty
    \/ Prepare
    \/ HeaderLine
    \/ StepLine
    \/ ExpectLine
    \/ ContinuationLine
    \/ Finalize
    \/ PostPass

SpecParse == InitParse /\ [][NextParse]_vars

(***************************************************************************)
(* JSON values and json.loads / json.dumps                                 *)
(*                                                                         *)
(* A value is a record with one field: the field's name is the Python type *)
(* the value loads as, the field's value its content.  A dict is the       *)
(* sequence of its <<key, value>> pairs in insertion order.                *)
(***************************************************************************)
JNull == [null |-> <<>>]
JNum(n) == [num |-> n]
JStr(s) == [str |-> s]
JArr(xs) == [arr |-> xs]
JObj(ps) == [obj |-> ps]

TypeOf(x) == CHOOSE k \in DOMAIN x : TRUE
Val(x) == x[TypeOf(x)]

HasKey(o, k) == \E n \in 1..Len(Val(o)) : Val(o)[n][1] = k

\* dict.get(k, default)
Get(o, k, default) ==
    IF HasKey(o, k)
    THEN Val(o)[CHOOSE n \in 1..Len(Val(o)) : Val(o)[n][1] = k][2]
    ELSE default

\* d[k] = x
Put(o, k, x) ==
    IF HasKey(o, k)
    THEN JObj([n \in 1..Len(Val(o)) |-> IF Val(o)[n][1] = k THEN <<k, x>> ELSE Val(o)[n]])
    ELSE JObj(Append(Val(o), <<k, x>>))

StartsWithAt(s, i, pat) == \A k \in 1..Len(pat) : At(s, i + k - 1) = pat[k]

RECURSIVE ToInt(_)
ToInt(ds) ==
    IF ds = <<>> THEN 0
    ELSE 10 * ToInt(SubSeq(ds, 1, Len(ds) - 1))
         + (CHOOSE n \in 0..9 : Decimal(n) = <<ds[Len(ds)]>>)

PFail == [ok |-> FALSE, val |-> JNull, j |-> 0]
POk(x, j) == [ok |-> TRUE, val |-> x, j |-> j]

JSON_WS == {" ", "TAB", "NL"}
SkipWs(s, i) == Span(s, i, JSON_WS)

\* a string literal, from the character after its opening quote
RECURSIVE ScanString(_, _, _)
ScanString(s, j, acc) ==
    IF j > Len(s) THEN PFail
    ELSE IF s[j] = "QT" THEN POk(JStr(acc), j + 1)
    ELSE IF s[j] = "BSL"
         THEN IF At(s, j + 1) \in {"QT", "BSL", "/"}
              THEN ScanString(s, j + 2, Append(acc, s[j + 1]))
              ELSE PFail
    ELSE IF s[j] \in {"TAB", "NL"} THEN PFail
    ELSE ScanString(s, j + 1, Append(acc, s[j]))

ScanNumber(s, i) ==
    IF s[i] = "0" THEN POk(JNum(0), i + 1)
    ELSE LET k == Span(s, i, DIGIT)
         IN  POk(JNum(ToInt(SubSeq(s, i, k - 1))), k)

RECURSIVE ParseValue(_, _)
RECURSIVE ParseMembers(_, _, _, _)
RECURSIVE ParseElems(_, _, _, _)

ParseValue(s, i) ==
    LET c == At(s, i)
    IN  CASE c = "{" -> ParseMembers(s, SkipWs(s, i + 1), JObj(<<>>), TRUE)
          [] c = "[" -> ParseElems(s, SkipWs(s, i + 1), <<>>, TRUE)
          [] c = "QT" -> ScanString(s, i + 1, <<>>)
          [] c \in DIGIT -> ScanNumber(s, i)
          [] c = "n" -> IF StartsWithAt(s, i, <<"n", "u", "l", "l">>)
                        THEN POk(JNull, i + 4) ELSE PFail
          [] OTHER -> PFail

ParseMembers(s, i, acc, first) ==
    IF first /\ At(s, i) = "}" THEN POk(acc, i + 1)
    ELSE IF At(s, i) # "QT" THEN PFail
    ELSE LET k == ScanString(s, i + 1, <<>>)
         IN  IF ~k.ok THEN PFail
             ELSE LET c == SkipWs(s, k.j)
                  IN  IF At(s, c) # ":" THEN PFail
                      ELSE LET x == ParseValue(s, SkipWs(s, c + 1))
                           IN  IF ~x.ok THEN PFail
                               ELSE LET e == SkipWs(s, x.j)
                                        acc2 == Put(acc, Val(k.val), x.val)
                                    IN  IF At(s, e) = "}" THEN POk(acc2, e + 1)
                                        ELSE IF At(s, e) = ","
                                        THEN ParseMembers(s, SkipWs(s, e + 1), acc2, FALSE)
                                        ELSE PFail

ParseElems(s, i, acc, first) ==
    IF first /\ At(s, i) = "]" THEN POk(JArr(acc), i + 1)
    ELSE LET x == ParseValue(s, i)
         IN  IF ~x.ok THEN PFail
             ELSE LET e == SkipWs(s, x.j)
                      acc2 == Append(acc, x.val)
                  IN  IF At(s, e) = "]" THEN POk(JArr(acc2), e + 1)
                      ELSE IF At(s, e) = ","
                      THEN ParseElems(s, SkipWs(s, e + 1), acc2, FALSE)
                      ELSE PFail

\* json.loads: ok = FALSE is JSONDecodeError
JsonLoads(s) ==
    LET r == ParseValue(s, SkipWs(s, 1))
    IN  IF r.ok /\ SkipWs(s, r.j) = Len(s) + 1
        THEN [ok |-> TRUE, val |-> r.val]
        ELSE [ok |-> FALSE, val |-> JNull]

RECURSIVE JoinWith(_, _)
JoinWith(parts, sep) ==
    IF parts = <<>> THEN <<>>
    ELSE IF Len(parts) = 1 THEN parts[1]
    ELSE parts[1] \o sep \o JoinWith(Tail(parts), sep)

\* json.dumps
RECURSIVE JsonDumps(_)
JsonDumps(x) ==
    CASE TypeOf(x) = "null" -> <<"n", "u", "l", "l">>
      [] TypeOf(x) = "num" -> Decimal(Val(x))
      [] TypeOf(x) = "str" -> <<"QT">> \o Val(x) \o <<"QT">>
      [] TypeOf(x) = "arr" ->
            <<"[">> \o JoinWith([n \in 1..Len(Val(x)) |-> JsonDumps(Val(x)[n])], <<",", " ">>)
                    \o <<"]">>
      [] TypeOf(x) = "obj" ->
            <<"{">> \o JoinWith([n \in 1..Len(Val(x)) |->
                                    <<"QT">> \o Val(x)[n][1] \o <<"QT", ":", " ">>
                                             \o JsonDumps(Val(x)[n][2])],
                                <<",", " ">>)
                    \o <<"}">>

\* repr(x) and str(x)
RECURSIVE PyRepr(_)
PyRepr(x) ==
    CASE TypeOf(x) = "null" -> <<"N", "o", "n", "e">>
      [] TypeOf(x) = "num" -> Decimal(Val(x))
      [] TypeOf(x) = "str" -> <<"APOS">> \o Val(x) \o <<"APOS">>
      [] TypeOf(x) = "arr" ->
            <<"[">> \o JoinWith([n \in 1..Len(Val(x)) |-> PyRepr(Val(x)[n])], <<",", " ">>)
                    \o <<"]">>
      [] TypeOf(x) = "obj" ->
            <<"{">> \o JoinWith([n \in 1..Len(Val(x)) |->
                                    <<"APOS">> \o Val(x)[n][1] \o <<"APOS", ":", " ">>
                                            \o PyRepr(Val(x)[n][2])],
                                <<",", " ">>)
                    \o <<"}">>

PyStr(x) == IF TypeOf(x) = "str" THEN Val(x) ELSE PyRepr(x)

K_test_cases == <<"t", "e", "s", "t", "_", "c", "a", "s", "e", "s">>
K_steps == <<"s", "t", "e", "p", "s">>
K_step == <<"s", "t", "e", "p">>
K_expected == <<"e", "x", "p", "e", "c", "t", "e", "d">>
K_id == <<"i", "d">>
K_metadata == <<"m", "e", "t", "a", "d", "a", "t", "a">>
K_design == <<"d", "e", "s", "i", "g", "n">>
K_traceability == <<"t", "r", "a", "c", "e", "a", "b", "i", "l", "i", "t", "y">>

(***************************************************************************)
(* app.py: _json_from_text                                                 *)
(***************************************************************************)
FENCE == <<"BTICK", "BTICK", "BTICK">>

\* line 229, first alternative of the pattern: at the start of the text, a
\* fence, an optional "json", then (the raw string doubles the backslash) a
\* backslash character and any number of the letter s.
\* The position after the match, 0 without match.
SubAlt1(s) ==
    IF ~StartsWithAt(s, 1, FENCE) THEN 0
    ELSE LET j == IF StartsWithAt(s, 4, <<"j", "s", "o", "n">>) THEN 8 ELSE 4
         IN  IF At(s, j) = "BSL" THEN Span(s, j + 1, {"s"}) ELSE 0

\* line 229, second alternative of the pattern matching at position p: a
\* backslash character, any number of the letter s, a fence, the end
SubAlt2(s, p) ==
    /\ At(s, p) = "BSL"
    /\ LET k == Span(s, p + 1, {"s"})
       IN  /\ StartsWithAt(s, k, FENCE)
           /\ (k + 2 = Len(s) \/ (k + 3 = Len(s) /\ s[k + 3] = "NL"))

\* line 229, re.sub(pattern, "", txt)
FenceSub(s) ==
    LET e1 == SubAlt1(s)
        from == IF e1 = 0 THEN 1 ELSE e1
        ps == {q \in from..Len(s) : SubAlt2(s, q)}
    IN  IF ps = {} THEN SubSeq(s, from, Len(s))
        ELSE LET q == Min(ps)
                 k == Span(s, q + 1, {"s"})
             IN  SubSeq(s, from, q - 1) \o SubSeq(s, k + 3, Len(s))

\* line 233, re.search: from the first backslash character followed by an
\* opening brace to the last backslash character followed by a closing brace
BraceSearch(s) ==
    LET closes(q) == {r \in (q + 2)..Len(s) : At(s, r) = "BSL" /\ At(s, r + 1) = "}"}
        opens == {q \in 1..Len(s) :
                    At(s, q) = "BSL" /\ At(s, q + 1) = "{" /\ closes(q) # {}}
    IN  IF opens = {} THEN [found |-> FALSE, text |-> <<>>]
        ELSE [found |-> TRUE,
              text |-> SubSeq(s, Min(opens), Max(closes(Min(opens))) + 1)]

EmptyCases == JObj(<<<<K_test_cases, JArr(<<>>)>>>>)

\* lines 226-235; raised: an exception leaves the function
_json_from_text(txt) ==
    LET t1 == Strip(txt)
        t2 == IF StartsWithAt(t1, 1, FENCE) THEN FenceSub(t1) ELSE t1
        r == JsonLoads(t2)
    IN  IF r.ok THEN [raised |-> FALSE, val |-> r.val]
        ELSE LET m == BraceSearch(t2)
             IN  IF m.found
                 THEN LET r2 == JsonLoads(m.text)
                      IN  IF r2.ok THEN [raised |-> FALSE, val |-> r2.val]
                          ELSE [raised |-> TRUE, val |-> JNull]
                 ELSE [raised |-> FALSE, val |-> EmptyCases]

(***************************************************************************)
(* app.py: generate_cases                                                  *)
(***************************************************************************)
Raise == [exc |-> TRUE, val |-> JNull]
Return(x) == [exc |-> FALSE, val |-> x]

\* for ... in x: a list gives its items, a str its characters, a dict its
\* keys; anything else is a TypeError
Iter(x) ==
    CASE TypeOf(x) = "arr" -> [ok |-> TRUE, items |-> Val(x)]
      [] TypeOf(x) = "str" -> [ok |-> TRUE, items |-> [n \in 1..Len(Val(x)) |-> JStr(<<Val(x)[n]>>)]]
      [] TypeOf(x) = "obj" -> [ok |-> TRUE, items |-> [n \in 1..Len(Val(x)) |-> JStr(Val(x)[n][1])]]
      [] OTHER -> [ok |-> FALSE, items |-> <<>>]

StepEntry(step, expected) == JObj(<<<<K_step, JStr(step)>>, <<K_expected, JStr(expected)>>>>)

\* lines 258-261; .strip() of a value that is not a str is an AttributeError
NormStep(e) ==
    IF TypeOf(e) = "obj"
    THEN LET a == Get(e, K_step, JStr(<<>>))
             b == Get(e, K_expected, JStr(<<>>))
         IN  IF TypeOf(a) = "str" /\ TypeOf(b) = "str"
             THEN Return(StepEntry(Strip(Val(a)), Strip(Val(b))))
             ELSE Raise
    ELSE Return(StepEntry(PyStr(e), <<>>))

\* lines 256-263; .get of a value that is not a dict is an AttributeError
NormCase(tc) ==
    IF TypeOf(tc) # "obj" THEN Raise
    ELSE LET it == Iter(Get(tc, K_steps, JArr(<<>>)))
         IN  IF ~it.ok THEN Raise
             ELSE IF \E n \in 1..Len(it.items) : NormStep(it.items[n]).exc THEN Raise
             ELSE Return(Put(tc, K_steps,
                             JArr([n \in 1..Len(it.items) |-> NormStep(it.items[n]).val])))

\* lines 252-264
NormalizeCases(data) ==
    IF TypeOf(data) # "obj" THEN Raise
    ELSE LET it == Iter(Get(data, K_test_cases, JArr(<<>>)))
         IN  IF ~it.ok THEN Raise
             ELSE IF \E n \in 1..Len(it.items) : NormCase(it.items[n]).exc THEN Raise
             ELSE Return(JArr([n \in 1..Len(it.items) |-> NormCase(it.items[n]).val]))

\* a generate_cases without its try/except
NoExcept(r) == r

\* lines 245, 265-266: try ... except Exception: return []
TryExcept(r) == IF r.exc THEN Return(JArr(<<>>)) ELSE r

(***************************************************************************)
(* The replies of the generation API                                       *)
(***************************************************************************)
StepEntries ==
    { StepEntry(<<" ", "a", " ">>, <<"b", " ">>),
      JObj(<<<<K_step, JStr(<<"a">>)>>>>),
      JObj(<<>>),
      JObj(<<<<K_step, JNum(1)>>, <<K_expected, JStr(<<"b">>)>>>>),
      JStr(<<"c">>),
      JNum(7) }

StepLists == UNION {[1..n -> StepEntries] : n \in 0..MaxSteps}

TestCase(steps) == JObj(<<<<K_id, JStr(<<"T">>)>>, <<K_steps, JArr(steps)>>>>)
WithCases(x) == JObj(<<<<K_test_cases, x>>>>)

OddPayloads ==
    { JArr(<<>>), JStr(<<"x">>), JNum(5), JNull, JObj(<<>>),
      WithCases(JNum(5)), WithCases(JStr(<<"a", "b">>)), WithCases(JStr(<<>>)),
      WithCases(JObj(<<<<K_id, JNum(1)>>>>)), WithCases(JArr(<<JNum(3)>>)),
      WithCases(JArr(<<JObj(<<<<K_id, JStr(<<"T">>)>>>>)>>)),
      WithCases(JArr(<<JObj(<<<<K_steps, JNull>>>>)>>)),
      WithCases(JArr(<<JObj(<<<<K_steps, JStr(<<"a", "b">>)>>>>)>>)),
      WithCases(JArr(<<TestCase(<<JStr(<<"c">>)>>), TestCase(<<>>)>>)) }

WebPayloads == {WithCases(JArr(<<TestCase(sl)>>)) : sl \in StepLists} \cup OddPayloads

Wraps == {"plain", "padded", "fence_json", "fence", "prose", "bsl_fence"}

Wrap(w, body) ==
    CASE w = "plain" -> body
      [] w = "padded" -> <<" ">> \o body \o <<"NL">>
      [] w = "fence_json" -> FENCE \o <<"j", "s", "o", "n", "NL">> \o body \o <<"NL">> \o FENCE
      [] w = "fence" -> FENCE \o <<"NL">> \o body \o <<"NL">> \o FENCE
      [] w = "prose" -> <<"h", "i", " ">> \o body \o <<" ", "o", "k">>
      [] w = "bsl_fence" -> FENCE \o <<"j", "s", "o", "n", "BSL", "s">> \o body
                                  \o <<"BSL", "s">> \o FENCE

\* replies that are not a wrapped JSON value
RawTexts ==
    { <<>>, <<"h", "i">>, <<"{", "a", "}">>, <<"h", " ", "{", "a", "}", " ", "i">>,
      <<"BSL", "{", "BSL", "}">> }

Throw == [kind |-> "throw", wrap |-> "none", body |-> <<>>, text |-> <<>>]
Reply(w, body) == [kind |-> "text", wrap |-> w, body |-> body, text |-> Wrap(w, body)]

WebOutcomes ==
    {Throw} \cup {Reply(w, JsonDumps(x)) : w \in Wraps, x \in WebPayloads}
            \cup {Reply("plain", t) : t \in RawTexts}

(***************************************************************************)
(* app.py: the export handler, lines 348-359                               *)
(***************************************************************************)
Stories == {<<>>, <<" ">>, <<"u">>}
Criteria == {<<>>, <<"c">>}

InitWeb ==
    /\ story \in Stories
    /\ ac \in Criteria
    /\ client \in BOOLEAN
    /\ apiout = [kind |-> "none", wrap |-> "none", body |-> <<>>, text |-> <<>>]
    /\ jres = [raised |-> FALSE, val |-> JNull]
    /\ gen = JArr(<<>>)
    /\ pdf = <<>>
    /\ wpc = "form"
    /\ ParseIdle /\ CliIdle /\ AuthIdle /\ RenderIdle

\* line 348
pdf_ready == Strip(story) # <<>> \/ Strip(ac) # <<>>

\* lines 351-355: the button is pressed, generate_cases is entered
ClickExport ==
    /\ wpc = "form"
    /\ pdf_ready
    /\ wpc' = "generate"
    /\ UNCHANGED <<story, ac, client, apiout, jres, gen, pdf>>
    /\ UNCHANGED <<pvars, cvars, avars, rvars>>

\* lines 239-240
GenerateSkip ==
    /\ wpc = "generate"
    /\ ~client \/ Strip(story) = <<>>
    /\ gen' = JArr(<<>>)
    /\ wpc' = "build"
    /\ UNCHANGED <<story, ac, client, apiout, jres, pdf>>
    /\ UNCHANGED <<pvars, cvars, avars, rvars>>

\* a result of the try block leaves generate_cases
Leave(r) ==
    IF r.exc
    THEN wpc' = "crashed" /\ gen' = gen
    ELSE wpc' = "build" /\ gen' = r.val

\* lines 245-250, 265-266: the request raises
ApiThrows ==
    /\ wpc = "generate"
    /\ client /\ Strip(story) # <<>>
    /\ apiout' = Throw
    /\ Leave(TryExcept(Raise))
    /\ UNCHANGED <<story, ac, client, jres, pdf>>
    /\ UNCHANGED <<pvars, cvars, avars, rvars>>

\* lines 245-250: the request returns a reply
ApiReplies ==
    /\ wpc = "generate"
    /\ client /\ Strip(story) # <<>>
    /\ \E out \in WebOutcomes : out.kind = "text" /\ apiout' = out
    /\ wpc' = "reply"
    /\ UNCHANGED <<story, ac, client, jres, gen, pdf>>
    /\ UNCHANGED <<pvars, cvars, avars, rvars>>

\* line 251
ExtractJson ==
    /\ wpc = "reply"
    /\ jres' = _json_from_text(apiout.text)
    /\ wpc' = "parsed"
    /\ UNCHANGED <<story, ac, client, apiout, gen, pdf>>
    /\ UNCHANGED <<pvars, cvars, avars, rvars>>

\* lines 251-266
NormalizeReply ==
    /\ wpc = "parsed"
    /\ Leave(TryExcept(IF jres.raised THEN Raise ELSE NormalizeCases(jres.val)))
    /\ UNCHANGED <<story, ac, client, apiout, jres, pdf>>
    /\ UNCHANGED <<pvars, cvars, avars, rvars>>

\* line 356
BuildPdf ==
    /\ wpc = "build"
    /\ pdf' = <<[story_text |-> story, ac_blob |-> ac, cases |-> gen]>>
    /\ wpc' = "built"
    /\ UNCHANGED <<story, ac, client, apiout, jres, gen>>
    /\ UNCHANGED <<pvars, cvars, avars, rvars>>

\* lines 357-359
OfferDownload ==
    /\ wpc = "built"
    /\ wpc' = "offered"
    /\ UNCHANGED <<story, ac, client, apiout, jres, gen, pdf>>
    /\ UNCHANGED <<pvars, cvars, avars, rvars>>

NextWeb ==
    \/ ClickExport
    \/ GenerateSkip
    \/ ApiThrows
    \/ ApiReplies
    \/ ExtractJson
    \/ NormalizeReply
    \/ BuildPdf
    \/ OfferDownload

SpecWeb == InitWeb /\ [][NextWeb]_vars

(***************************************************************************)
(* generate_pdf.py: read_user_story_from_stdin                             *)
(***************************************************************************)
UPPER == <<"A", "B", "C", "D", "E", "F", "G", "H", "I", "J", "K", "L", "M",
           "N", "O", "P", "Q", "R", "S", "T", "U", "V", "W", "X", "Y", "Z">>
LOWER == <<"a", "b", "c", "d", "e", "f", "g", "h", "i", "j", "k", "l", "m",
           "n", "o", "p", "q", "r", "s", "t", "u", "v", "w", "x", "y", "z">>

\* str.lower()
Lower(s) ==
    [k \in 1..Len(s) |->
        IF \E n \in 1..26 : UPPER[n] = s[k]
        THEN LOWER[CHOOSE n \in 1..26 : UPPER[n] = s[k]]
        ELSE s[k]]

END_LINE == <<"E", "N", "D">>

\* lines 75-83: the lines before the first END line (or all, at end of file)
UntilEnd(ls) ==
    LET ends == {k \in 1..Len(ls) : Strip(ls[k]) = END_LINE}
    IN  IF ends = {} THEN ls ELSE SubSeq(ls, 1, Min(ends) - 1)

\* lines 68-92; <<>> is the empty dict
read_user_story_from_stdin(ls) ==
    LET txt == Strip(JoinLines(UntilEnd(ls)))
        all == SplitLines(txt)
        rows == [k \in 1..Len(NonBlankRStripped(all)) |-> Strip(NonBlankRStripped(all)[k])]
        isAc(ln) == StartsWithAt(Lower(ln), 1, <<"a", "c", ":">>)
        rest == SelectSeq(Tail(rows), isAc)
    IN  IF txt = <<>> THEN <<>>
        ELSE <<[user_story |-> rows[1],
                acceptance_criteria |->
                    [k \in 1..Len(rest) |-> Strip(SubSeq(rest[k], 4, Len(rest[k])))],
                id |-> <<"U", "S", "-", "N", "E", "W">>]>>

(***************************************************************************)
(* generate_pdf.py: call_model                                             *)
(***************************************************************************)
\* line 97, the default of max_retries
max_retries == 2

WORD == {UPPER[n] : n \in 1..26} \cup {LOWER[n] : n \in 1..26} \cup DIGIT \cup {"_"}

\* line 110: the opening fence, a word after it and the whitespace after that
OpenFenceSub(s) ==
    IF StartsWithAt(s, 1, FENCE)
    THEN SubSeq(s, Span(s, Span(s, 4, WORD), WS), Len(s))
    ELSE s

\* line 111: the closing fence at the end of the text (or before a final
\* newline) and the whitespace before it
CloseFenceSub(s) ==
    LET e == IF s # <<>> /\ s[Len(s)] = "NL" /\ StartsWithAt(s, Len(s) - 3, FENCE)
             THEN Len(s) - 1 ELSE Len(s)
    IN  IF e >= 3 /\ StartsWithAt(s, e - 2, FENCE)
        THEN LET q == Min({r \in 1..(e - 2) : \A k \in r..(e - 3) : s[k] \in WS})
             IN  SubSeq(s, 1, q - 1) \o SubSeq(s, e + 1, Len(s))
        ELSE s

\* lines 108-111
Unfence(txt) ==
    LET t1 == Strip(txt)
    IN  IF StartsWithAt(t1, 1, FENCE) THEN Strip(CloseFenceSub(OpenFenceSub(t1))) ELSE t1

IsSubstring(k, s) == \E n \in 1..(Len(s) + 1 - Len(k)) : StartsWithAt(s, n, k)

\* key in data; for a number or None it is a TypeError, caught at line 119
Contains(x, k) ==
    CASE TypeOf(x) = "obj" -> HasKey(x, k)
      [] TypeOf(x) = "arr" -> \E n \in 1..Len(Val(x)) : Val(x)[n] = JStr(k)
      [] TypeOf(x) = "str" -> IsSubstring(k, Val(x))
      [] OTHER -> FALSE

\* line 115
RequiredKeys == {K_metadata, K_design, K_traceability, K_test_cases}

\* a call_model that accepts any JSON
AcceptsAnyJson(txt) == JsonLoads(Unfence(txt)).ok

\* lines 108-120: the reply is returned rather than retried
Accepts(txt) ==
    LET r == JsonLoads(Unfence(txt))
    IN  r.ok /\ \A k \in RequiredKeys : Contains(r.val, k)

(***************************************************************************)
(* generate_pdf.py: build_pdf, as far as it reads its argument             *)
(***************************************************************************)
K_testcases == <<"t", "e", "s", "t", "c", "a", "s", "e", "s">>
K_covered_by == <<"c", "o", "v", "e", "r", "e", "d", "_", "b", "y">>
K_equivalence_classes ==
    <<"e", "q", "u", "i", "v", "a", "l", "e", "n", "c", "e", "_",
      "c", "l", "a", "s", "s", "e", "s">>
K_boundary_values ==
    <<"b", "o", "u", "n", "d", "a", "r", "y", "_", "v", "a", "l", "u", "e", "s">>
K_negative_cases ==
    <<"n", "e", "g", "a", "t", "i", "v", "e", "_", "c", "a", "s", "e", "s">>

\* bool(x)
Truthy(x) ==
    CASE TypeOf(x) = "null" -> FALSE
      [] TypeOf(x) = "num" -> Val(x) # 0
      [] OTHER -> Val(x) # <<>>

\* sep.join(x) does not raise
Joinable(x) ==
    Iter(x).ok /\ \A n \in 1..Len(Iter(x).items) : TypeOf(Iter(x).items[n]) = "str"

\* lines 225-286: none of the .get, join and for ... in of build_pdf raises
\* (what the typesetting library does with the texts is not part of this)
ReadsCleanly(data) ==
    /\ TypeOf(data) = "obj"
    /\ LET md == Get(data, K_metadata, JNull)
       IN  Truthy(md) => TypeOf(md) = "obj"
    /\ LET dsg == Get(data, K_design, JObj(<<>>))
       IN  Truthy(dsg) =>
             /\ TypeOf(dsg) = "obj"
             /\ \A k \in {K_equivalence_classes, K_boundary_values, K_negative_cases} :
                   Joinable(Get(dsg, k, JArr(<<>>)))
    /\ LET tr == Get(data, K_traceability, JArr(<<>>))
       IN  Truthy(tr) =>
             /\ Iter(tr).ok
             /\ \A n \in 1..Len(Iter(tr).items) :
                   /\ TypeOf(Iter(tr).items[n]) = "obj"
                   /\ Joinable(Get(Iter(tr).items[n], K_covered_by, JArr(<<>>)))
    /\ LET tcs == Get(data, K_test_cases, JNull)
       IN  IF Truthy(tcs)
           THEN /\ Iter(tcs).ok
                /\ \A n \in 1..Len(Iter(tcs).items) :
                      LET tc == Iter(tcs).items[n]
                      IN  /\ TypeOf(tc) = "obj"
                          /\ LET st == Get(tc, K_steps, JArr(<<>>))
                             IN  Truthy(st) =>
                                   /\ Iter(st).ok
                                   /\ \A m \in 1..Len(Iter(st).items) :
                                         TypeOf(Iter(st).items[m]) = "obj"
           ELSE LET legacy == Get(data, K_testcases, JStr(<<>>))
                IN  Truthy(legacy) => TypeOf(legacy) = "str"

(***************************************************************************)
(* generate_pdf.py: the main script, lines 297-319                         *)
(***************************************************************************)
Full(tcs) ==
    JObj(<<<<K_metadata, JObj(<<>>)>>, <<K_design, JObj(<<>>)>>,
           <<K_traceability, JArr(<<>>)>>, <<K_test_cases, tcs>>>>)

Without(o, k) == JObj(SelectSeq(Val(o), LAMBDA pr : pr[1] # k))

CliPayloads ==
    {Full(JArr(<<TestCase(sl)>>)) : sl \in StepLists}
    \cup {Without(Full(JArr(<<TestCase(<<>>)>>)), k) : k \in RequiredKeys}
    \cup { JObj(<<>>), JNum(5), JArr(<<>>), Full(JArr(<<>>)), Full(JNull),
           JArr(<<JStr(K_metadata), JStr(K_design), JStr(K_traceability),
                  JStr(K_test_cases)>>) }

CliWraps == {"plain", "fence_json", "prose"}

CliOutcomes ==
    {Throw} \cup {Reply(w, JsonDumps(x)) : w \in CliWraps, x \in CliPayloads}
            \cup {Reply("plain", t) : t \in {<<>>, <<"h", "i">>}}

Stdins ==
    { <<>>,
      << <<" ">> >>,
      << <<"u">> >>,
      << <<"u">>, <<"A", "C", ":", " ", "c">>, <<"x">> >>,
      << END_LINE, <<"u">> >>,
      << <<" ", "u">>, <<" ", "E", "N", "D">>, <<"a", "c", ":", "d">> >> }

InitCli ==
    /\ stdin \in Stdins
    /\ cli_client \in BOOLEAN
    /\ payload = <<>>
    /\ attempts = 0
    /\ creply = <<>>
    /\ cdata = <<>>
    /\ handed = <<>>
    /\ written = FALSE
    /\ cout = ""
    /\ cexit = -1
    /\ cpc = "start"
    /\ ParseIdle /\ WebIdle /\ AuthIdle /\ RenderIdle

\* lines 298-301: nothing was typed
NoInput ==
    /\ cpc = "start"
    /\ read_user_story_from_stdin(stdin) = <<>>
    /\ cout' = "No input provided"
    /\ cexit' = 1
    /\ cpc' = "exit"
    /\ UNCHANGED <<stdin, payload, cli_client, attempts, creply, cdata, handed, written>>
    /\ UNCHANGED <<pvars, wvars, avars, rvars>>

\* line 298
ReadStdin ==
    /\ cpc = "start"
    /\ read_user_story_from_stdin(stdin) # <<>>
    /\ payload' = read_user_story_from_stdin(stdin)
    /\ cpc' = "main"
    /\ UNCHANGED <<stdin, cli_client, attempts, creply, cdata, handed, written, cout, cexit>>
    /\ UNCHANGED <<pvars, wvars, avars, rvars>>

\* lines 304-308 (and 98-99): without a client a RuntimeError is raised
NoClient ==
    /\ cpc = "main"
    /\ ~cli_client
    /\ cpc' = "failed"
    /\ UNCHANGED <<stdin, payload, cli_client, attempts, creply, cdata, handed, written,
                   cout, cexit>>
    /\ UNCHANGED <<pvars, wvars, avars, rvars>>

\* lines 305-306, 97-101
CallModel ==
    /\ cpc = "main"
    /\ cli_client
    /\ attempts' = 0
    /\ cpc' = "call"
    /\ UNCHANGED <<stdin, payload, cli_client, creply, cdata, handed, written, cout, cexit>>
    /\ UNCHANGED <<pvars, wvars, avars, rvars>>

\* lines 102-108: one request; an exception of the API call is not caught
\* inside call_model
Request ==
    /\ cpc = "call"
    /\ attempts < max_retries + 1
    /\ attempts' = attempts + 1
    /\ \E out \in CliOutcomes :
          IF out.kind = "throw"
          THEN cpc' = "failed" /\ creply' = creply
          ELSE cpc' = "check" /\ creply' = out.text
    /\ UNCHANGED <<stdin, payload, cli_client, cdata, handed, written, cout, cexit>>
    /\ UNCHANGED <<pvars, wvars, avars, rvars>>

\* lines 112-118: the reply passes both checks, call_model returns it
ReturnReply ==
    /\ cpc = "check"
    /\ Accepts(creply)
    /\ cdata' = <<JsonLoads(Unfence(creply)).val>>
    /\ cpc' = "returned"
    /\ UNCHANGED <<stdin, payload, cli_client, attempts, creply, handed, written, cout, cexit>>
    /\ UNCHANGED <<pvars, wvars, avars, rvars>>

\* lines 112-120: the reply fails a check, the loop goes on
RejectReply ==
    /\ cpc = "check"
    /\ ~Accepts(creply)
    /\ cpc' = "call"
    /\ UNCHANGED <<stdin, payload, cli_client, attempts, creply, cdata, handed, written,
                   cout, cexit>>
    /\ UNCHANGED <<pvars, wvars, avars, rvars>>

\* line 121: the loop is over
Exhausted ==
    /\ cpc = "call"
    /\ attempts >= max_retries + 1
    /\ cpc' = "failed"
    /\ UNCHANGED <<stdin, payload, cli_client, attempts, creply, cdata, handed, written,
                   cout, cexit>>
    /\ UNCHANGED <<pvars, wvars, avars, rvars>>

\* lines 309-312
ReportError ==
    /\ cpc = "failed"
    /\ cout' = "OpenAI generation unavailable"
    /\ cexit' = 1
    /\ cpc' = "exit"
    /\ UNCHANGED <<stdin, payload, cli_client, attempts, creply, cdata, handed, written>>
    /\ UNCHANGED <<pvars, wvars, avars, rvars>>

\* lines 314-319
BuildPdfCli ==
    /\ cpc = "returned"
    /\ handed' = cdata
    /\ IF ReadsCleanly(cdata[1])
       THEN written' = TRUE /\ cout' = "PDF saved as testcases.pdf" /\ cexit' = 0
       ELSE written' = FALSE /\ cout' = "Failed to write PDF" /\ cexit' = 1
    /\ cpc' = "exit"
    /\ UNCHANGED <<stdin, payload, cli_client, attempts, creply, cdata>>
    /\ UNCHANGED <<pvars, wvars, avars, rvars>>

NextCli ==
    \/ NoInput
    \/ ReadStdin
    \/ NoClient
    \/ CallModel
    \/ Request
    \/ ReturnReply
    \/ RejectReply
    \/ Exhausted
    \/ ReportError
    \/ BuildPdfCli

SpecCli == InitCli /\ [][NextCli]_vars

(***************************************************************************)
(* app.py: the password gate, lines 29-114                                 *)
(***************************************************************************)
\* what can be configured and what can be typed
Configured == {"", "p", "pq", "P"}
Typed == {"", "p", "q", "pq", "P", "p "}

WRONG == "Wrong password"

\* a try_login that accepts the empty configured password
MatchesAnyConfigured(input) == input = APP_PASSWORD

\* line 35, the condition of try_login
Matches(input) == input = APP_PASSWORD /\ APP_PASSWORD # ""

\* lines 29-32: the state at the first script run of a session
InitAuth ==
    /\ APP_PASSWORD \in Configured
    /\ auth_ok = FALSE
    /\ pw_input = ""
    /\ pw_error = ""
    /\ click = "none"
    /\ reached = {}
    /\ apc = "run"
    /\ ParseIdle /\ WebIdle /\ CliIdle /\ RenderIdle

\* lines 42-108: the run renders the login screen and stops
StopAtLogin ==
    /\ apc = "run"
    /\ ~auth_ok
    /\ apc' = "login"
    /\ click' = "none"
    /\ reached' = {}
    /\ UNCHANGED <<APP_PASSWORD, auth_ok, pw_input, pw_error>>
    /\ UNCHANGED <<pvars, wvars, cvars, rvars>>

\* lines 111-113: the run finds the logout button pressed
LogoutRun ==
    /\ apc = "run"
    /\ auth_ok
    /\ click = "logout"
    /\ auth_ok' = FALSE
    /\ click' = "none"
    /\ reached' = {}
    /\ apc' = "run"
    /\ UNCHANGED <<APP_PASSWORD, pw_input, pw_error>>
    /\ UNCHANGED <<pvars, wvars, cvars, rvars>>

\* lines 111-359: the run passes the gate and reaches the form; with the
\* export button pressed it calls generate_cases and build_pdf
PageRun ==
    /\ apc = "run"
    /\ auth_ok
    /\ click # "logout"
    /\ reached' = IF click = "export" THEN {"form", "generate", "export"} ELSE {"form"}
    /\ click' = "none"
    /\ apc' = "app"
    /\ UNCHANGED <<APP_PASSWORD, auth_ok, pw_input, pw_error>>
    /\ UNCHANGED <<pvars, wvars, cvars, rvars>>

\* line 102: the text of the password field changes
TypePassword ==
    /\ apc = "login"
    /\ \E v \in Typed : v # pw_input /\ pw_input' = v
    /\ apc' = "run"
    /\ UNCHANGED <<APP_PASSWORD, auth_ok, pw_error, click, reached>>
    /\ UNCHANGED <<pvars, wvars, cvars, rvars>>

\* lines 34-40 and 103: the login button runs try_login, then the script
try_login ==
    /\ apc = "login"
    /\ IF Matches(pw_input)
       THEN auth_ok' = TRUE /\ pw_error' = ""
       ELSE auth_ok' = auth_ok /\ pw_error' = WRONG
    /\ apc' = "run"
    /\ UNCHANGED <<APP_PASSWORD, pw_input, click, reached>>
    /\ UNCHANGED <<pvars, wvars, cvars, rvars>>

\* line 111: the logout button is pressed
PressLogout ==
    /\ apc = "app"
    /\ click' = "logout"
    /\ apc' = "run"
    /\ UNCHANGED <<APP_PASSWORD, auth_ok, pw_input, pw_error, reached>>
    /\ UNCHANGED <<pvars, wvars, cvars, rvars>>

\* line 351: the export button is pressed
PressExport ==
    /\ apc = "app"
    /\ click' = "export"
    /\ apc' = "run"
    /\ UNCHANGED <<APP_PASSWORD, auth_ok, pw_input, pw_error, reached>>
    /\ UNCHANGED <<pvars, wvars, cvars, rvars>>

\* a field of the form changes
EditForm ==
    /\ apc = "app"
    /\ apc' = "run"
    /\ UNCHANGED <<APP_PASSWORD, auth_ok, pw_input, pw_error, click, reached>>
    /\ UNCHANGED <<pvars, wvars, cvars, rvars>>

NextAuth ==
    \/ StopAtLogin
    \/ LogoutRun
    \/ PageRun
    \/ TypePassword
    \/ try_login
    \/ PressLogout
    \/ PressExport
    \/ EditForm

SpecAuth == InitAuth /\ [][NextAuth]_vars

(***************************************************************************)
(* The two build_pdf functions: the flowables they hand to doc.build       *)
(***************************************************************************)
\* A flowable. Fixed markup and labels are kept as one token each; a table
\* cell is the text of its Paragraph or the bare string.
Paragraph(t) == [kind |-> "Paragraph", text |-> t, rows |-> <<>>]
Spacer == [kind |-> "Spacer", text |-> <<>>, rows |-> <<>>]
ListFlowable(items) ==
    [kind |-> "ListFlowable", text |-> <<>>, rows |-> [n \in 1..Len(items) |-> <<items[n]>>]]
Table(rows) == [kind |-> "Table", text |-> <<>>, rows |-> rows]

DASH == <<"EMDASH">>

K_title == <<"t", "i", "t", "l", "e">>
K_priority == <<"p", "r", "i", "o", "r", "i", "t", "y">>
K_type == <<"t", "y", "p", "e">>
K_source_id == <<"s", "o", "u", "r", "c", "e", "_", "i", "d">>
K_criterion == <<"c", "r", "i", "t", "e", "r", "i", "o", "n">>

\* x or default
Or(x, default) == IF Truthy(x) THEN x ELSE default

\* the text handed to Paragraph for a field of a dict
Field(o, k) == Val(Get(o, k, JStr(<<>>)))

\* app.py lines 297-300, generate_pdf.py lines 254-259
SummaryRow(tc) == <<Field(tc, K_id), Field(tc, K_title), Field(tc, K_priority), Field(tc, K_type)>>

SummaryRows(tcs) ==
    <<<<<<"ID">>, <<"Title">>, <<"Priority">>, <<"Type">>>>>>
    \o [n \in 1..Len(tcs) |-> SummaryRow(tcs[n])]

\* app.py line 314, generate_pdf.py line 269: the f-string of the heading
CaseHeading(tc) ==
    Paragraph(<<"<b>">> \o PyStr(Get(tc, K_id, JStr(<<>>))) \o <<"</b>", " ", "EMDASH", " ">>
              \o PyStr(Get(tc, K_title, JStr(<<>>))))

\* app.py lines 315-325, generate_pdf.py lines 270-284
StepTable(tc) ==
    LET steps == Val(Or(Get(tc, K_steps, JArr(<<>>)), JArr(<<>>)))
        hdr == <<<<"Step">>, <<"Action">>, <<"Expected Result">>>>
    IN  IF steps # <<>>
        THEN Table(<<hdr>> \o [n \in 1..Len(steps) |->
                        <<Decimal(n), Field(steps[n], K_step), Field(steps[n], K_expected)>>])
        ELSE Table(<<hdr, <<DASH, DASH, DASH>>>>)

\* app.py lines 313-341
RECURSIVE WebCaseFlow(_)
WebCaseFlow(tcs) ==
    IF tcs = <<>> THEN <<>>
    ELSE <<CaseHeading(Head(tcs)), StepTable(Head(tcs)), Spacer>> \o WebCaseFlow(Tail(tcs))

\* app.py lines 278-341: flow
WebFlow(story_text, ac_blob, cs) ==
    LET all == SplitLines(ac_blob)
        kept == NonBlankRStripped(all)
        ls == [n \in 1..Len(kept) |-> Strip(kept[n])]
    IN  <<Paragraph(<<" User Story to Testcase Generator">>), Spacer,
          Paragraph(<<"<b>User Story</b>">>),
          Paragraph(IF Strip(story_text) # <<>> THEN Strip(story_text) ELSE DASH), Spacer,
          Paragraph(<<"<b>Acceptance Criteria</b>">>)>>
        \o (IF ls # <<>> THEN <<ListFlowable(ls)>> ELSE <<Paragraph(DASH)>>)
        \o <<Spacer>>
        \o (IF Truthy(cs)
            THEN <<Paragraph(<<"<b>Generated Test Design</b>">>), Spacer,
                   Table(SummaryRows(Val(cs))), Spacer>> \o WebCaseFlow(Val(cs))
            ELSE <<>>)

\* sep.join(list) or the placeholder
JoinedOrDash(x, sep) ==
    LET parts == [n \in 1..Len(Val(x)) |-> Val(Val(x)[n])]
    IN  IF JoinWith(parts, sep) # <<>> THEN JoinWith(parts, sep) ELSE DASH

\* generate_pdf.py lines 225-244: title, design table, traceability table
CliHeadFlow(data) ==
    LET md == Or(Get(data, K_metadata, JNull), JObj(<<>>))
        sid == Or(Get(md, K_source_id, JNull), JStr(<<"User Story">>))
        design == Or(Get(data, K_design, JObj(<<>>)), JObj(<<>>))
        items(k) == JoinedOrDash(Get(design, k, JArr(<<>>)), <<"<br/>">>)
        trace == Val(Or(Get(data, K_traceability, JArr(<<>>)), JArr(<<>>)))
    IN  <<Paragraph(<<"<b>Test Design for:</b>", " ">> \o PyStr(sid)), Spacer,
          Table(<<<<<<"Section">>, <<"Items">>>>,
                  <<<<"Equivalence classes">>, items(K_equivalence_classes)>>,
                  <<<<"Boundary values">>, items(K_boundary_values)>>,
                  <<<<"Negative cases">>, items(K_negative_cases)>>>>),
          Spacer,
          Table(<<<<<<"Acceptance Criterion">>, <<"Covered By (TC IDs)">>>>>>
                \o [n \in 1..Len(trace) |->
                      <<Field(trace[n], K_criterion),
                        JoinWith([m \in 1..Len(Val(Get(trace[n], K_covered_by, JArr(<<>>)))) |->
                                     Val(Val(Get(trace[n], K_covered_by, JArr(<<>>)))[m])],
                                 <<",", " ">>)>>]),
          Spacer>>

\* generate_pdf.py lines 265-284
RECURSIVE CliCaseFlow(_, _)
CliCaseFlow(tcs, first) ==
    IF tcs = <<>> THEN <<>>
    ELSE (IF first THEN <<>> ELSE <<Spacer>>)
         \o <<CaseHeading(Head(tcs)), StepTable(Head(tcs))>>
         \o CliCaseFlow(Tail(tcs), FALSE)

\* generate_pdf.py lines 252-289
CliCasesFlow(tcs) ==
    IF tcs # <<>>
    THEN <<Paragraph(<<"<b>Test Case Summary</b>">>), Spacer, Table(SummaryRows(tcs)), Spacer>>
         \o CliCaseFlow(tcs, TRUE)
    ELSE <<Paragraph(<<"<b>No test cases were found.</b>">>)>>

\* a case dict of the legacy parser as a value
CaseValue(c) ==
    JObj(<<<<K_id, JStr(c.id)>>, <<K_title, JStr(c.title)>>, <<K_priority, JStr(c.priority)>>,
           <<K_type, JStr(c.type)>>,
           <<K_steps, JArr([n \in 1..Len(c.steps) |->
                              StepEntry(c.steps[n].step, c.steps[n].expected)])>>>>)

(***************************************************************************)
(* The arguments the renderers are called with                             *)
(***************************************************************************)
RenderStepLists == UNION {[1..n -> {StepEntry(<<"a">>, <<"b">>), StepEntry(<<"a">>, <<>>)}]
                            : n \in 0..MaxSteps}
RenderCases == {TestCase(sl) : sl \in RenderStepLists}
               \cup {JObj(<<<<K_id, JStr(<<"U">>)>>, <<K_title, JStr(<<"A">>)>>>>)}
RenderCaseLists ==
    {JArr(<<>>)} \cup {JArr(<<tc>>) : tc \in RenderCases}
                 \cup {JArr(<<TestCase(<<>>), tc>>) : tc \in RenderCases}

AcBlobs == {<<>>, <<" ", "NL">>, <<"c">>, <<" ", "c", " ", "NL", "NL", "d">>}

WebArgs == {<<s, a, cs>> : s \in Stories, a \in AcBlobs, cs \in RenderCaseLists}

LegacyBlobs ==
    { <<>>, <<" ">>,
      <<"T", "C", "-", "1", " ", "EMDASH", " ", "A">>,
      <<"T", "C", "-", "1", " ", "-", " ", "A", "NL", "1", ".", " ", "a", "NL",
        "-", ">", " ", "x", "NL", "m", "NL", "2", ".", "b">> }

Opt(k, vs) == {<<>>} \cup {<<<<k, v>>>> : v \in vs}

CliArgs ==
    { <<JObj(md \o dsg \o tr \o tcs \o leg)>> :
        md \in Opt(K_metadata, {JObj(<<>>), JObj(<<<<K_source_id, JStr(<<"S">>)>>>>)}),
        dsg \in Opt(K_design, {JObj(<<>>),
                               JObj(<<<<K_equivalence_classes,
                                        JArr(<<JStr(<<"e">>), JStr(<<"f">>)>>)>>,
                                      <<K_negative_cases, JArr(<<>>)>>>>)}),
        tr \in Opt(K_traceability,
                   {JArr(<<>>),
                    JArr(<<JObj(<<<<K_criterion, JStr(<<"c">>)>>,
                                  <<K_covered_by, JArr(<<JStr(<<"T">>), JStr(<<"U">>)>>)>>>>)>>)}),
        tcs \in Opt(K_test_cases, {JArr(<<>>), JArr(<<TestCase(<<>>)>>),
                                   JArr(<<TestCase(<<StepEntry(<<"a">>, <<"b">>)>>),
                                          TestCase(<<>>)>>)}),
        leg \in Opt(K_testcases, {JStr(b) : b \in LegacyBlobs} \cup {JNull}) }
    \cup { <<JArr(<<>>)>>, <<JObj(<<<<K_test_cases, JArr(<<JStr(<<"c">>)>>)>>>>)>> }

InitRender ==
    /\ \/ rfn = "web" /\ rin \in WebArgs
       \/ rfn = "cli" /\ rin \in CliArgs
    /\ elems = <<>>
    /\ rpc = "start"
    /\ ParseIdle /\ WebIdle /\ CliIdle /\ AuthIdle

\* app.py lines 269-345
WebBuildPdf ==
    /\ rpc = "start"
    /\ rfn = "web"
    /\ elems' = WebFlow(rin[1], rin[2], rin[3])
    /\ rpc' = "built"
    /\ UNCHANGED <<rfn, rin>>
    /\ UNCHANGED <<pvars, wvars, cvars, avars>>

\* generate_pdf.py lines 217-292: a .get, join or loop of build_pdf raises
CliBuildRaises ==
    /\ rpc = "start"
    /\ rfn = "cli"
    /\ ~ReadsCleanly(rin[1])
    /\ rpc' = "raised"
    /\ UNCHANGED <<rfn, rin, elems>>
    /\ UNCHANGED <<pvars, wvars, cvars, avars>>

\* generate_pdf.py lines 217-246: the sections before the test cases, with
\* test cases given
CliSections ==
    /\ rpc = "start"
    /\ rfn = "cli"
    /\ ReadsCleanly(rin[1])
    /\ Truthy(Get(rin[1], K_test_cases, JNull))
    /\ elems' = CliHeadFlow(rin[1])
    /\ rpc' = "cases"
    /\ UNCHANGED <<rfn, rin>>
    /\ UNCHANGED <<pvars, wvars, cvars, avars>>

\* generate_pdf.py lines 217-249: the sections before the test cases, then
\* the call of parse_legacy_testcases_blob
CliSectionsLegacy ==
    /\ rpc = "start"
    /\ rfn = "cli"
    /\ ReadsCleanly(rin[1])
    /\ ~Truthy(Get(rin[1], K_test_cases, JNull))
    /\ elems' = CliHeadFlow(rin[1])
    /\ rpc' = "legacy"
    /\ LET arg == Val(Or(Get(rin[1], K_testcases, JStr(<<>>)), JStr(<<>>)))
       IN  /\ raw' = SplitLines(arg)
           /\ blob' = arg
    /\ lines' = <<>>
    /\ idx' = 1
    /\ cases' = <<>>
    /\ current' = <<>>
    /\ ppc' = "start"
    /\ UNCHANGED <<rfn, rin>>
    /\ UNCHANGED <<wvars, cvars, avars>>

\* generate_pdf.py lines 252-292 with the test cases of the data
CliTestCases ==
    /\ rpc = "cases"
    /\ elems' = elems \o CliCasesFlow(Val(Get(rin[1], K_test_cases, JNull)))
    /\ rpc' = "built"
    /\ UNCHANGED <<rfn, rin>>
    /\ UNCHANGED <<pvars, wvars, cvars, avars>>

\* generate_pdf.py lines 252-292 with the cases the legacy parser returned
CliLegacyCases ==
    /\ rpc = "legacy"
    /\ ppc = "done"
    /\ elems' = elems \o CliCasesFlow([n \in 1..Len(cases) |-> CaseValue(cases[n])])
    /\ rpc' = "built"
    /\ UNCHANGED <<rfn, rin>>
    /\ UNCHANGED <<pvars, wvars, cvars, avars>>

NextRender ==
    \/ WebBuildPdf
    \/ CliBuildRaises
    \/ CliSections
    \/ CliSectionsLegacy
    \/ CliTestCases
    \/ CliLegacyCases
    \/ NextParse

SpecRender == InitRender /\ [][NextRender]_vars

(***************************************************************************)
(* Reading the input independently of the parser's loop: which lines are   *)
(* headers and step lines, and which header a step line belongs to.        *)
(***************************************************************************)
NonBlank(k) == k \in 1..Len(raw) /\ Strip(raw[k]) # <<>>
IsHeaderLine(k) == NonBlank(k) /\ TC_HEADER_RE(RStrip(raw[k])).ok
IsStepLine(k) == NonBlank(k) /\ ~IsHeaderLine(k) /\ STEP_RE(RStrip(raw[k])).ok
IsExpectLine(k) ==
    NonBlank(k) /\ ~IsHeaderLine(k) /\ ~IsStepLine(k) /\ EXPECT_RE(RStrip(raw[k])).ok

RECURSIVE Ascending(_)
Ascending(S) == IF S = {} THEN <<>> ELSE <<Min(S)>> \o Ascending(S \ {Min(S)})

\* the header line that opened the case a line falls into; 0: no header yet
Owner(k) == Max({0} \cup {h \in 1..(k - 1) : IsHeaderLine(h)})
HeaderLines == {h \in 1..Len(raw) : IsHeaderLine(h)}
OrphanSteps == {k \in 1..Len(raw) : IsStepLine(k) /\ Owner(k) = 0}
Owners == Ascending(HeaderLines \cup (IF OrphanSteps = {} THEN {} ELSE {0}))
StepLinesOf(h) == Ascending({k \in 1..Len(raw) : IsStepLine(k) /\ Owner(k) = h})

IsPrefix(p, s) == Len(p) <= Len(s) /\ SubSeq(s, 1, Len(p)) = p
RemoveWhitespace(s) == SelectSeq(s, LAMBDA c : c \notin WS)
CaseFields == {"id", "title", "priority", "type", "steps"}
LastStep(cur) == cur[1].steps[Len(cur[1].steps)]

L_H1 == <<"T", "C", "-", "1", " ", "EMDASH", " ", "A">>
L_S1 == <<" ", "1", ".", " ", "a">>
L_S2 == <<"2", ".", "b", " ">>
L_E == <<"-", ">", " ", "x">>

(***************************************************************************)
(* C1: parse_legacy_testcases_blob is total: it never raises, every step   *)
(* it takes brings it closer to its return (so it terminates), what it     *)
(* returns is a list of case records, and for empty or whitespace-only     *)
(* input the list is empty.                                                *)
(***************************************************************************)
ParseMeasure ==
    CASE ppc = "start" -> Len(raw) + 4
      [] ppc = "loop" -> (Len(lines) + 1 - idx) + 3
      [] ppc = "post" -> 1
      [] OTHER -> 0

C1_ParserTotal ==
    /\ [](ppc # "raised")
    /\ [][ParseMeasure' < ParseMeasure /\ ParseMeasure' >= 0]_pvars
    /\ [](ppc = "done" =>
            /\ \A n \in 1..Len(cases) : DOMAIN cases[n] = CaseFields
            /\ (Strip(blob) = <<>> => cases = <<>>))

\* markers out of order: an expected-result line, then a step, then a header
C1_Witness ==
    /\ ppc = "done"
    /\ Len(raw) >= 3
    /\ IsExpectLine(1) /\ IsStepLine(2) /\ IsHeaderLine(3)
    /\ Len(cases) = 2

(***************************************************************************)
(* C2: an expected-result line that arrives when the last step of the open *)
(* case already has a non-empty expected text appends its text to it after *)
(* a single space; the earlier expected text is not lost.                  *)
(***************************************************************************)
C2_ExpectedAppended ==
    [][(/\ InLoop
        /\ ~TC_HEADER_RE(Line).ok
        /\ ~STEP_RE(Line).ok
        /\ EXPECT_RE(Line).ok
        /\ HasSteps
        /\ LastStep(current).expected # EmptyText)
       => /\ current' # <<>>
          /\ Len(current'[1].steps) = Len(current[1].steps)
          /\ LastStep(current').expected =
                LastStep(current).expected \o <<" ">> \o Strip(EXPECT_RE(Line).g1)]_pvars

(***************************************************************************)
(* C3: every step line yields exactly one step, in the case opened by the  *)
(* nearest preceding header (or in the synthesized case), and the steps of *)
(* a case are in the order of their step lines.  The five-line example     *)
(* yields one case with its two (action, expected) steps in order.         *)
(***************************************************************************)
C3_StepOrder ==
    ppc = "done" =>
        /\ Len(cases) = Len(Owners)
        /\ \A n \in 1..Len(Owners) :
              LET ks == StepLinesOf(Owners[n])
              IN  /\ Len(cases[n].steps) = Len(ks)
                  /\ \A j \in 1..Len(ks) :
                        IsPrefix(STEP_RE(RStrip(raw[ks[j]])).g2, cases[n].steps[j].step)
        /\ (raw = <<L_H1, L_S1, L_E, L_S2, L_E>> =>
              cases = <<[id |-> <<"T", "C", "-", "1">>, title |-> <<"A">>,
                         priority |-> EmptyText, type |-> EmptyText,
                         steps |-> <<[step |-> <<"a">>, expected |-> <<"x">>],
                                     [step |-> <<"b">>, expected |-> <<"x">>]>>]>>)

C3_Witness == ppc = "done" /\ raw = <<L_H1, L_S1, L_E, L_S2, L_E>>

(***************************************************************************)
(* C4: the result is one case per header line, in input order, whose id is *)
(* the header's identifier with whitespace removed (non-empty), with the   *)
(* header's title and empty priority and type, preceded by one synthesized *)
(* case TC-1 with empty title exactly when a step line comes before the    *)
(* first header; a header without step lines keeps its case, with no step. *)
(***************************************************************************)
C4_OneCasePerHeader ==
    ppc = "done" =>
        /\ Len(cases) = Len(Owners)
        /\ \A n \in 1..Len(Owners) :
              LET h == Owners[n]
              IN  IF h = 0
                  THEN /\ n = 1
                       /\ cases[n].id = <<"T", "C", "-", "1">>
                       /\ cases[n].title = EmptyText
                  ELSE LET m == TC_HEADER_RE(RStrip(raw[h]))
                       IN  /\ cases[n].id = RemoveWhitespace(m.g1)
                           /\ cases[n].id # EmptyText
                           /\ cases[n].title = m.g2
                           /\ cases[n].priority = EmptyText
                           /\ cases[n].type = EmptyText
                           /\ (StepLinesOf(h) = <<>> => cases[n].steps = <<>>)

(***************************************************************************)
(* Reading a reply independently of _json_from_text                        *)
(***************************************************************************)
IsObjectText(b) == JsonLoads(b).ok /\ TypeOf(JsonLoads(b).val) = "obj"
HasOpenBrace(t) == \E n \in 1..Len(t) : t[n] = "{"

\* from the first opening brace through the last closing brace
BraceSlice(t) ==
    LET os == {n \in 1..Len(t) : t[n] = "{"}
        cs == {n \in 1..Len(t) : t[n] = "}"}
    IN  IF os = {} \/ cs = {} THEN <<>> ELSE SubSeq(t, Min(os), Max(cs))

\* neither the text, nor the text without its fences, nor its brace slice
\* is JSON
NoParseSucceeds(t) ==
    /\ ~JsonLoads(Strip(t)).ok
    /\ ~JsonLoads(Unfence(t)).ok
    /\ ~JsonLoads(BraceSlice(t)).ok

(***************************************************************************)
(* C5: for every JSON object text J, _json_from_text of J wrapped in       *)
(* fences with the language tag json (fence, json, newline, J, newline,    *)
(* fence) is the result of parsing J directly.                             *)
(***************************************************************************)
C5_FencedEqualsDirect ==
    (wpc = "parsed" /\ apiout.wrap = "fence_json" /\ IsObjectText(apiout.body)) =>
        /\ ~jres.raised
        /\ jres.val = JsonLoads(apiout.body).val

(***************************************************************************)
(* C6: for a reply that is prose around one embedded JSON object,          *)
(* _json_from_text returns that object, which is the text from the first   *)
(* opening brace through the last closing brace; for a reply without any   *)
(* opening brace it returns the empty test-case list.                      *)
(***************************************************************************)
C6_ProseFallback ==
    wpc = "parsed" =>
        /\ (apiout.wrap = "prose" /\ IsObjectText(apiout.body)) =>
              /\ ~jres.raised
              /\ BraceSlice(apiout.text) = apiout.body
              /\ jres.val = JsonLoads(BraceSlice(apiout.text)).val
        /\ ~HasOpenBrace(apiout.text) =>
              /\ ~jres.raised
              /\ jres.val = EmptyCases

(***************************************************************************)
(* C7: _json_from_text never raises to its caller, whatever the reply,     *)
(* and when no parse succeeds what it returns is the empty test-case list. *)
(***************************************************************************)
C7_ExtractNeverRaises ==
    wpc = "parsed" =>
        /\ ~jres.raised
        /\ NoParseSucceeds(apiout.text) => jres.val = EmptyCases

(***************************************************************************)
(* The shape of what a renderer is handed                                  *)
(***************************************************************************)
IsNormalStep(e) ==
    /\ TypeOf(e) = "obj"
    /\ HasKey(e, K_step) /\ HasKey(e, K_expected)
    /\ \A k \in {K_step, K_expected} :
          /\ TypeOf(Get(e, k, JNull)) = "str"
          /\ Strip(Val(Get(e, k, JNull))) = Val(Get(e, k, JNull))

\* the step entries of the test cases of a list of cases
StepsOfCases(tcs) ==
    IF TypeOf(tcs) # "arr" THEN {}
    ELSE UNION { LET tc == Val(tcs)[n]
                     st == IF TypeOf(tc) = "obj" THEN Get(tc, K_steps, JArr(<<>>)) ELSE JNull
                 IN  IF TypeOf(st) = "arr" THEN {Val(st)[m] : m \in 1..Len(Val(st))} ELSE {}
               : n \in 1..Len(Val(tcs)) }

\* what the claim says an entry of the reply becomes
Normalized(e) ==
    IF TypeOf(e) = "obj"
    THEN StepEntry(Strip(Val(Get(e, K_step, JStr(<<>>)))),
                   Strip(Val(Get(e, K_expected, JStr(<<>>)))))
    ELSE StepEntry(Val(e), <<>>)

Normalizable(e) ==
    \/ TypeOf(e) = "str"
    \/ /\ TypeOf(e) = "obj"
       /\ TypeOf(Get(e, K_step, JStr(<<>>))) = "str"
       /\ TypeOf(Get(e, K_expected, JStr(<<>>))) = "str"

\* the cases the reply held, when it is a mapping
RepliedCases(data) ==
    IF TypeOf(data) = "obj" THEN Get(data, K_test_cases, JArr(<<>>)) ELSE JNull

(***************************************************************************)
(* C8: on both paths from a structured reply to a renderer (web:           *)
(* generate_cases then app.build_pdf; command line: call_model then        *)
(* generate_pdf.build_pdf) every step entry of every test case the         *)
(* renderer is handed is a mapping with trimmed text fields step and       *)
(* expected: a mapping entry of the reply with both fields trimmed and a   *)
(* missing field made empty, a bare text entry as the step with an empty   *)
(* expected; no entry of another shape is handed over.                     *)
(***************************************************************************)
C8_RendererGetsNormalSteps ==
    /\ pdf # <<>> =>
          /\ \A e \in StepsOfCases(pdf[1].cases) : IsNormalStep(e)
          /\ (apiout.kind = "text" /\ ~jres.raised) =>
                \A e \in StepsOfCases(RepliedCases(jres.val)) :
                    (Normalizable(e) /\ pdf[1].cases # JArr(<<>>)) =>
                        Normalized(e) \in StepsOfCases(pdf[1].cases)
    /\ handed # <<>> =>
          /\ \A e \in StepsOfCases(RepliedCases(handed[1])) : IsNormalStep(e)
          /\ \A e \in StepsOfCases(RepliedCases(cdata[1])) :
                Normalizable(e) => Normalized(e) \in StepsOfCases(RepliedCases(handed[1]))

(***************************************************************************)
(* C9: in the web variant generate_cases never raises and always returns   *)
(* a list; the list is empty without an API client, for a blank story,     *)
(* when the API call throws, when the reply cannot be parsed and when the  *)
(* parsed reply is ill-shaped (not a mapping, test_cases not a list of     *)
(* mappings, a step field that is not text); in each case the export goes  *)
(* on to build_pdf with the raw story and criteria and offers the          *)
(* download.                                                               *)
(***************************************************************************)
BadStepField(tcs) ==
    \E e \in StepsOfCases(tcs) :
        /\ TypeOf(e) = "obj"
        /\ \E k \in {K_step, K_expected} :
              HasKey(e, k) /\ TypeOf(Get(e, k, JNull)) # "str"

IllShaped(data) ==
    \/ TypeOf(data) # "obj"
    \/ /\ HasKey(data, K_test_cases)
       /\ \/ TypeOf(Get(data, K_test_cases, JNull)) # "arr"
          \/ \E n \in 1..Len(Val(Get(data, K_test_cases, JNull))) :
                TypeOf(Val(Get(data, K_test_cases, JNull))[n]) # "obj"
          \/ BadStepField(Get(data, K_test_cases, JNull))

GenerationFailed ==
    \/ ~client
    \/ Strip(story) = <<>>
    \/ apiout.kind = "throw"
    \/ apiout.kind = "text" /\ (jres.raised \/ NoParseSucceeds(apiout.text))
    \/ apiout.kind = "text" /\ ~jres.raised /\ IllShaped(jres.val)

WebMeasure ==
    CASE wpc = "form" -> 6
      [] wpc = "generate" -> 5
      [] wpc = "reply" -> 4
      [] wpc = "parsed" -> 3
      [] wpc = "build" -> 2
      [] wpc = "built" -> 1
      [] OTHER -> 0

C9_GenerateNeverFails ==
    /\ [](wpc # "crashed")
    /\ [](wpc \in {"build", "built", "offered"} =>
            /\ TypeOf(gen) = "arr"
            /\ GenerationFailed => gen = JArr(<<>>))
    /\ [](wpc \in {"built", "offered"} =>
            pdf = <<[story_text |-> story, ac_blob |-> ac, cases |-> gen]>>)
    /\ [][WebMeasure' < WebMeasure]_wvars
    /\ [][wpc = "build" => wpc' = "built"]_wvars
    /\ [][wpc = "built" => wpc' = "offered"]_wvars

C9_Witness ==
    /\ wpc = "offered"
    /\ client /\ Strip(story) # <<>>
    /\ apiout.kind = "text"
    /\ jres.raised
    /\ gen = JArr(<<>>)
    /\ pdf # <<>>

(***************************************************************************)
(* C10: in the command-line variant call_model issues at most              *)
(* max_retries + 1 requests (3 by default) and returns a reply only if it  *)
(* parses as JSON and contains the four keys metadata, design,             *)
(* traceability and test_cases; a reply failing a check is retried, and    *)
(* when every attempt has failed call_model raises. build_pdf is called    *)
(* only after call_model returned; on a generation error (no client, API   *)
(* exception, retries exhausted) the process reports the error and exits   *)
(* with status 1 without writing testcases.pdf.                            *)
(***************************************************************************)
HasFourKeys(txt) ==
    LET r == JsonLoads(Unfence(txt))
    IN  /\ r.ok
        /\ Contains(r.val, K_metadata) /\ Contains(r.val, K_design)
        /\ Contains(r.val, K_traceability) /\ Contains(r.val, K_test_cases)

C10_RetryThenReport ==
    /\ max_retries + 1 = 3
    /\ [](attempts <= max_retries + 1)
    /\ [](cpc = "returned" =>
            /\ HasFourKeys(creply)
            /\ cdata = <<JsonLoads(Unfence(creply)).val>>)
    /\ [][(cpc = "check" /\ ~HasFourKeys(creply)) => (cpc' = "call" /\ cdata' = <<>>)]_cvars
    /\ [][(cpc = "call" /\ attempts < max_retries + 1) => attempts' = attempts + 1]_cvars
    /\ [][(cpc = "call" /\ attempts >= max_retries + 1) => cpc' = "failed"]_cvars
    /\ [][handed' # handed => (cpc = "returned" /\ handed' = cdata)]_cvars
    /\ [](cpc = "failed" => (handed = <<>> /\ ~written))
    /\ [][cpc = "failed" => (cpc' = "exit" /\ cexit' = 1 /\ ~written' /\ handed' = <<>>
                             /\ cout' = "OpenAI generation unavailable")]_cvars
    /\ []((cpc = "exit" /\ payload # <<>> /\ cdata = <<>>) =>
            (cexit = 1 /\ ~written /\ handed = <<>>
             /\ cout = "OpenAI generation unavailable"))

C10_Witness ==
    /\ cpc = "exit"
    /\ attempts = max_retries + 1
    /\ handed # <<>>
    /\ written
    /\ cexit = 0

(***************************************************************************)
(* C12: a line that is neither header, step line nor expected-result line  *)
(* (a continuation line), met while a case is open with at least one step, *)
(* has its trimmed text appended after a single space to the last step's   *)
(* expected text when that is non-empty and otherwise to the last step's   *)
(* action; with no case open or an open case without steps a continuation  *)
(* line and an expected-result line leave the result list, the open case   *)
(* and all steps as they are.                                              *)
(***************************************************************************)
L_C == <<"1", ".">>

AtLine == ppc = "loop" /\ idx \in 1..Len(lines)
NotHeaderNorStep == ~TC_HEADER_RE(lines[idx]).ok /\ ~STEP_RE(lines[idx]).ok
OpenWithStep == current # <<>> /\ Len(current[1].steps) >= 1

\* the last step of the open case after the text of the line went into it
Continued ==
    LET n == Len(current[1].steps)
        s == current[1].steps[n]
        t == Strip(lines[idx])
    IN  IF s.expected # <<>>
        THEN [step |-> s.step, expected |-> s.expected \o <<" ">> \o t]
        ELSE [step |-> s.step \o <<" ">> \o t, expected |-> s.expected]

C12_Continuation ==
    [][(AtLine /\ NotHeaderNorStep) =>
          IF OpenWithStep
          THEN ~EXPECT_RE(lines[idx]).ok =>
                 /\ cases' = cases
                 /\ current' = <<[current[1] EXCEPT
                                    !.steps[Len(current[1].steps)] = Continued]>>
          ELSE cases' = cases /\ current' = current]_pvars

C12_Witness ==
    /\ ppc = "done"
    /\ raw = <<L_S2, L_C, L_E, L_C>>
    /\ cases = <<[DefaultCase EXCEPT
                    !.steps = <<[step |-> <<"b", " ", "1", ".">>,
                                 expected |-> <<"x", " ", "1", ".">>]>>]>>

(***************************************************************************)
(* C13: when the identifiers of the header lines of the input are pairwise *)
(* distinct after space removal, the ids of the returned cases are         *)
(* pairwise distinct; so neither the id TC-1 of a case synthesized for     *)
(* steps before the first header nor an id given by the post-pass equals   *)
(* the id of another case of the result.                                   *)
(***************************************************************************)
HeaderId(h) == RemoveSpaces(TC_HEADER_RE(RStrip(raw[h])).g1)

DistinctHeaderIds ==
    \A h1, h2 \in HeaderLines : h1 # h2 => HeaderId(h1) # HeaderId(h2)

C13_DistinctIds ==
    (ppc = "done" /\ DistinctHeaderIds) =>
        \A i, j \in 1..Len(cases) : i # j => cases[i].id # cases[j].id

(***************************************************************************)
(* C14: auth_ok starts false and becomes true only through try_login with  *)
(* an entered password equal to a non-empty configured APP_PASSWORD; with  *)
(* an empty APP_PASSWORD nothing entered sets it. A script run with        *)
(* auth_ok false stops at the login screen, so the form, the generation    *)
(* call and the export are reached only while auth_ok is true. A failed    *)
(* attempt only sets the error message and further attempts succeed as the *)
(* first would; logout sets auth_ok back to false.                         *)
(***************************************************************************)
LoginAttempt == apc = "login" /\ pw_input' = pw_input

C14_PasswordGate ==
    /\ ~auth_ok
    /\ [][(auth_ok' /\ ~auth_ok) =>
             (LoginAttempt /\ pw_input = APP_PASSWORD /\ APP_PASSWORD # "")]_avars
    /\ [](APP_PASSWORD = "" => ~auth_ok)
    /\ [][(apc = "run" /\ ~auth_ok) => (apc' = "login" /\ reached' = {})]_avars
    /\ []((apc = "app" \/ reached # {}) => auth_ok)
    /\ [][(LoginAttempt /\ ~(pw_input = APP_PASSWORD /\ APP_PASSWORD # "")) =>
             /\ pw_error' = "Wrong password"
             /\ UNCHANGED <<APP_PASSWORD, auth_ok, pw_input, click, reached>>
             /\ apc' = "run"]_avars
    /\ [][(LoginAttempt /\ pw_input = APP_PASSWORD /\ APP_PASSWORD # "") => auth_ok']_avars
    /\ [][(apc = "run" /\ auth_ok /\ click = "logout") => ~auth_ok']_avars

C14_Witness ==
    /\ apc = "app"
    /\ auth_ok
    /\ APP_PASSWORD = "pq" /\ pw_input = "pq"
    /\ reached = {"form", "generate", "export"}

(***************************************************************************)
(* Reading a built document: its sections and their placeholders           *)
(***************************************************************************)
H_STORY == <<"<b>User Story</b>">>
H_CRITERIA == <<"<b>Acceptance Criteria</b>">>
H_DESIGN == <<"<b>Generated Test Design</b>">>
H_SUMMARY == <<"<b>Test Case Summary</b>">>
STEP_HEADER == <<<<"Step">>, <<"Action">>, <<"Expected Result">>>>

ShowsDash(e) ==
    \/ e.kind = "Paragraph" /\ e.text = DASH
    \/ \E r \in 1..Len(e.rows) : \E c \in 1..Len(e.rows[r]) : e.rows[r][c] = DASH

HasHeading(h) == \E n \in 1..Len(elems) : elems[n] = Paragraph(h)

\* the section under heading h opens with a placeholder
DashUnder(h) ==
    \E n \in 1..(Len(elems) - 1) : elems[n] = Paragraph(h) /\ ShowsDash(elems[n + 1])

\* the tables whose header row starts with the given label
TablesOf(label) ==
    {n \in 1..Len(elems) :
        elems[n].kind = "Table" /\ elems[n].rows # <<>> /\ elems[n].rows[1][1] = <<label>>}

\* the row of the design table for one of its three lists shows the placeholder
DesignRowDash(label) ==
    \E n \in TablesOf("Section") : \E r \in 1..Len(elems[n].rows) :
        elems[n].rows[r] = <<<<label>>, DASH>>

\* the test case is rendered as its heading and a table with exactly one
\* placeholder row
OnePlaceholderRow(tc) ==
    \E n \in 1..(Len(elems) - 1) :
        /\ elems[n] = CaseHeading(tc)
        /\ elems[n + 1] = Table(<<STEP_HEADER, <<DASH, DASH, DASH>>>>)

NoItems(o, k) == ~Truthy(Get(o, k, JArr(<<>>)))

\* the test cases the document is about
RenderedCases ==
    IF rfn = "web" THEN Val(rin[3])
    ELSE IF Truthy(Get(rin[1], K_test_cases, JNull)) THEN Val(Get(rin[1], K_test_cases, JNull))
    ELSE [n \in 1..Len(cases) |-> CaseValue(cases[n])]

(***************************************************************************)
(* C11: both build_pdf functions emit every section whatever its input;    *)
(* a section whose input is empty (blank story, no acceptance-criteria     *)
(* line, empty design list, empty traceability list, empty test-case list, *)
(* test case without steps) is present and shows the em-dash placeholder;  *)
(* a test case without steps is rendered with exactly one placeholder row. *)
(***************************************************************************)
C11_SectionsAlwaysPresent ==
    rpc = "built" =>
        /\ \A n \in 1..Len(RenderedCases) :
              NoItems(RenderedCases[n], K_steps) => OnePlaceholderRow(RenderedCases[n])
        /\ rfn = "web" =>
              /\ HasHeading(H_STORY) /\ HasHeading(H_CRITERIA) /\ HasHeading(H_DESIGN)
              /\ Strip(rin[1]) = <<>> => DashUnder(H_STORY)
              /\ Strip(rin[2]) = <<>> => DashUnder(H_CRITERIA)
              /\ RenderedCases = <<>> => DashUnder(H_DESIGN)
        /\ rfn = "cli" =>
              /\ TablesOf("Section") # {}
              /\ TablesOf("Acceptance Criterion") # {}
              /\ HasHeading(H_SUMMARY)
              /\ LET design == Or(Get(rin[1], K_design, JObj(<<>>)), JObj(<<>>))
                 IN  /\ NoItems(design, K_equivalence_classes) =>
                            DesignRowDash("Equivalence classes")
                     /\ NoItems(design, K_boundary_values) => DesignRowDash("Boundary values")
                     /\ NoItems(design, K_negative_cases) => DesignRowDash("Negative cases")
              /\ NoItems(rin[1], K_traceability) =>
                    \E n \in TablesOf("Acceptance Criterion") : ShowsDash(elems[n])
              /\ RenderedCases = <<>> => DashUnder(H_SUMMARY)

====
